---- MODULE Spec2Model ----
(***************************************************************************)
(* A model of core/backup/dependency_resolver.py: the DependencyResolver   *)
(* class that builds a dependency graph from the service manifests of the  *)
(* registry, caches it in one YAML file with a time-to-live, resolves      *)
(* transitive dependencies and selects backup targets under a policy.      *)
(*                                                                         *)
(* A Python dict is a record [keys, val]: keys is the insertion order,     *)
(* val the mapping.  The pass-through fields vmid, ip and type of a node   *)
(* are copied and never read by the resolver and are left out.             *)
(***************************************************************************)
EXTENDS Integers, Sequences, FiniteSets, TLC

VARIABLES
    store,       \* the registry directory: [exists, docs], docs in glob order
    cacheFile,   \* dependency_graph.yaml: [exists, mtime, content]
    now,         \* the wall clock, datetime.now()
    pc,          \* position of the one caller
    call,        \* operation and arguments of the call in progress
    graph,       \* local `graph` of the call in progress
    resolved,    \* local `resolved` of resolve
    to_resolve,  \* local `to_resolve` of resolve
    expanded,    \* ghost: the nodes whose dependencies resolve has enqueued, in order
    targets,     \* local `targets` of get_backup_targets
    idx,         \* loop position of get_backup_targets (graph.items() / include)
    all_deps,    \* local `all_deps`: what is left of it to iterate
    last         \* the record of the last completed call

vars == <<store, cacheFile, now, pc, call, graph, resolved, to_resolve,
          expanded, targets, idx, all_deps, last>>

----------------------------------------------------------------------------
(* Bounds of the model. *)

\* cache_ttl_seconds, in clock ticks
TTL == 2
\* the clock stops at MaxTime
MaxTime == 4
\* the total number of dependency entries in the manifests of one registry
MaxEdges == 3
\* the same, in the registries of the termination runs
MaxCycleEdges == 2
\* the same, in the registries of the get_backup_targets runs
MaxTargetEdges == 1

----------------------------------------------------------------------------
(* Names, python dicts, sorting. *)

CORE == "nhi-core"

INFRASTRUCTURE_SERVICES ==
    {"postgresql", "postgres", "redis", "minio", "chromadb", "rabbitmq", "mongodb"}

\* every service name of the model, in the order python sorts strings
NameOrder == <<"A", "B", "C", "D", "Redis", "nhi-core", "redis">>

AllNames == {NameOrder[i] : i \in 1..Len(NameOrder)}

\* str.lower()
Lower(name) ==
    CASE name = "A" -> "a"
      [] name = "B" -> "b"
      [] name = "C" -> "c"
      [] name = "D" -> "d"
      [] name = "Redis" -> "redis"
      [] OTHER -> name

\* sorted(S) as a sequence
RECURSIVE SortFrom(_, _)
SortFrom(S, i) ==
    IF i > Len(NameOrder) THEN <<>>
    ELSE (IF NameOrder[i] \in S THEN <<NameOrder[i]>> ELSE <<>>) \o SortFrom(S, i + 1)

SortNames(S) == SortFrom(S, 1)

Range(s) == {s[i] : i \in 1..Len(s)}

EmptyMap == [x \in {} |-> x]

EmptyDict == [keys |-> <<>>, val |-> EmptyMap]

Has(d, k) == k \in DOMAIN d.val

\* d[k] = v of a list of pairs: every assignment adds an entry
DictSetAppends(d, k, v) ==
    [keys |-> Append(d.keys, k), val |-> (k :> v) @@ d.val]

\* d[k] = v : a new key goes last, an existing key keeps its place
DictSet(d, k, v) ==
    IF Has(d, k)
    THEN [keys |-> d.keys, val |-> [d.val EXCEPT ![k] = v]]
    ELSE [keys |-> Append(d.keys, k), val |-> (k :> v) @@ d.val]

----------------------------------------------------------------------------
(* The registry: one manifest per file. *)

\* a manifest as yaml.safe_load sees it
Manifest(name, status, required, optional) ==
    [parse |-> "ok", hasName |-> TRUE, name |-> name,
     hasStatus |-> TRUE, status |-> status,
     depsFormat |-> "dict", required |-> required, optional |-> optional]

\* BuildNode that reads `dependencies` as a mapping only
BuildNodeDictOnly(data) ==
    [status |-> IF data.hasStatus THEN data.status ELSE "unknown",
     requires |-> IF data.depsFormat = "dict" THEN data.required ELSE <<>>,
     optional |-> IF data.depsFormat = "dict" THEN data.optional ELSE <<>>,
     is_infrastructure |-> Lower(data.name) \in INFRASTRUCTURE_SERVICES]

\* lines 127-146 with `name in INFRASTRUCTURE_SERVICES`, the name as written
BuildNodeCaseSensitive(data) ==
    [status |-> IF data.hasStatus THEN data.status ELSE "unknown",
     requires |-> IF data.depsFormat \in {"list", "dict"} THEN data.required ELSE <<>>,
     optional |-> IF data.depsFormat = "dict" THEN data.optional ELSE <<>>,
     is_infrastructure |-> data.name \in INFRASTRUCTURE_SERVICES]

\* lines 127-146: the node of one manifest
BuildNode(data) ==
    [status |-> IF data.hasStatus THEN data.status ELSE "unknown",
     requires |-> IF data.depsFormat \in {"list", "dict"} THEN data.required ELSE <<>>,
     optional |-> IF data.depsFormat = "dict" THEN data.optional ELSE <<>>,
     is_infrastructure |-> Lower(data.name) \in INFRASTRUCTURE_SERVICES]

\* lines 120-150: does the manifest reach graph[name] = ... ; a document that
\* fails to parse, is empty, has no name, or whose `dependencies` is neither
\* a list nor a mapping (deps.get raises) is skipped
ManifestOk(data) ==
    /\ data.parse = "ok"
    /\ data.hasName
    /\ data.depsFormat \in {"absent", "list", "dict"}

\* BuildFrom that gives up at the first manifest it cannot use
RECURSIVE BuildFromAbortsOnMalformed(_, _, _)
BuildFromAbortsOnMalformed(docs, i, g) ==
    IF i > Len(docs) \/ ~ManifestOk(docs[i]) THEN g
    ELSE BuildFromAbortsOnMalformed(docs, i + 1,
                                    DictSet(g, docs[i].name, BuildNode(docs[i])))

RECURSIVE BuildFrom(_, _, _)
BuildFrom(docs, i, g) ==
    IF i > Len(docs) THEN g
    ELSE BuildFrom(docs, i + 1,
                   IF ManifestOk(docs[i])
                   THEN DictSet(g, docs[i].name, BuildNode(docs[i]))
                   ELSE g)

\* lines 113-150 of _build_graph: the graph of the registry
BuildGraph(st) ==
    IF ~st.exists THEN EmptyDict ELSE BuildFrom(st.docs, 1, EmptyDict)

----------------------------------------------------------------------------
(* The cache file. *)

NoContent == [kind |-> "none", generated |-> 0, ttl_seconds |-> 0,
              service_count |-> 0, graph |-> EmptyDict]

NoFile == [exists |-> FALSE, mtime |-> 0, content |-> NoContent]

\* yaml.dump of a mapping writes its keys sorted; yaml.safe_load returns them
\* in the order of the file
YamlDump(g) == [keys |-> SortNames(DOMAIN g.val), val |-> g.val]

\* _save_cache: the file is written at time t
save_cache(g, t) ==
    [exists |-> TRUE, mtime |-> t,
     content |-> [kind |-> "envelope", generated |-> t, ttl_seconds |-> TTL,
                  service_count |-> Len(g.keys), graph |-> YamlDump(g)]]

\* _build_graph: build, save, return; with no registry directory it returns
\* the empty graph at line 117, before the save of line 153
build_graph(st, cache, t) ==
    [graph |-> BuildGraph(st),
     cache |-> IF st.exists THEN save_cache(BuildGraph(st), t) ELSE cache,
     built |-> TRUE, raised |-> FALSE]

\* _is_cache_valid with <= for <
is_cache_validInclusive(cache, t) ==
    /\ cache.exists
    /\ t - cache.mtime <= TTL

\* _is_cache_valid
is_cache_valid(cache, t) ==
    /\ cache.exists
    /\ t - cache.mtime < TTL

\* open() or yaml.safe_load() or data.get raises: the file cannot be opened
\* (fault), does not parse ("garbage"), or is an empty document ("empty",
\* safe_load returns None)
LoadRaises(cache, fault) ==
    \/ fault = "read_error"
    \/ cache.content.kind \in {"garbage", "empty"}

\* _load_cache that rewrites the file it has read
load_cacheTouches(st, cache, t, fault) ==
    IF LoadRaises(cache, fault)
    THEN build_graph(st, cache, t)
    ELSE [graph |-> IF cache.content.kind \in {"envelope", "partial"}
                    THEN cache.content.graph ELSE EmptyDict,
          cache |-> [cache EXCEPT !.mtime = t], built |-> FALSE, raised |-> FALSE]

\* _load_cache without its try/except
load_cacheNoExcept(st, cache, t, fault) ==
    IF LoadRaises(cache, fault)
    THEN [graph |-> EmptyDict, cache |-> cache, built |-> FALSE, raised |-> TRUE]
    ELSE [graph |-> IF cache.content.kind \in {"envelope", "partial"}
                    THEN cache.content.graph ELSE EmptyDict,
          cache |-> cache, built |-> FALSE, raised |-> FALSE]

\* _load_cache; a mapping without a 'graph' key ("nograph") yields {}, a
\* document cut short inside its graph ("partial") what there is of the graph
load_cache(st, cache, t, fault) ==
    IF LoadRaises(cache, fault)
    THEN build_graph(st, cache, t)
    ELSE [graph |-> IF cache.content.kind \in {"envelope", "partial"}
                    THEN cache.content.graph ELSE EmptyDict,
          cache |-> cache, built |-> FALSE, raised |-> FALSE]

\* get_graph
get_graph(force_rebuild, st, cache, t, fault) ==
    IF ~force_rebuild /\ is_cache_valid(cache, t)
    THEN load_cache(st, cache, t, fault)
    ELSE build_graph(st, cache, t)

\* invalidate_cache that leaves the file
invalidate_cacheKeepsFile(cache) == cache

\* invalidate_cache
invalidate_cache(cache) == IF cache.exists THEN NoFile ELSE cache

----------------------------------------------------------------------------
(* resolve: lines 169-194. *)

\* lines 184-186 and 190-192: for dep in deps: if dep not in resolved: append
RECURSIVE Enqueue(_, _, _, _)
Enqueue(deps, i, res, q) ==
    IF i > Len(deps) THEN q
    ELSE Enqueue(deps, i + 1, res,
                 IF deps[i] \notin res THEN Append(q, deps[i]) ELSE q)

\* ResolveStep following `optional` whatever include_optional says
ResolveStepAlwaysOptional(g, res, q, include_optional) ==
    LET current == Head(q)
        rest == Tail(q)
        res1 == res \cup {current}
        q1 == IF Has(g, current)
              THEN Enqueue(g.val[current].requires, 1, res1, rest)
              ELSE rest
        q2 == IF Has(g, current)
              THEN Enqueue(g.val[current].optional, 1, res1, q1)
              ELSE q1
    IN  IF current \in res
        THEN [resolved |-> res, to_resolve |-> rest, expanded |-> <<>>]
        ELSE [resolved |-> res1, to_resolve |-> q2,
              expanded |-> IF Has(g, current) THEN <<current>> ELSE <<>>]

\* ResolveStep without `if current in resolved: continue`
ResolveStepNoSeenCheck(g, res, q, include_optional) ==
    LET current == Head(q)
        rest == Tail(q)
        res1 == res \cup {current}
        q1 == IF Has(g, current)
              THEN Enqueue(g.val[current].requires, 1, res1, rest)
              ELSE rest
        q2 == IF Has(g, current) /\ include_optional
              THEN Enqueue(g.val[current].optional, 1, res1, q1)
              ELSE q1
    IN  [resolved |-> res1, to_resolve |-> q2,
         expanded |-> IF Has(g, current) THEN <<current>> ELSE <<>>]

\* ResolveStep with resolved.add(current) moved under `if current in graph`
ResolveStepSkipsUnknown(g, res, q, include_optional) ==
    LET current == Head(q)
        rest == Tail(q)
        res1 == res \cup {current}
        q1 == IF Has(g, current)
              THEN Enqueue(g.val[current].requires, 1, res1, rest)
              ELSE rest
        q2 == IF Has(g, current) /\ include_optional
              THEN Enqueue(g.val[current].optional, 1, res1, q1)
              ELSE q1
    IN  IF current \in res
        THEN [resolved |-> res, to_resolve |-> rest, expanded |-> <<>>]
        ELSE IF Has(g, current)
        THEN [resolved |-> res1, to_resolve |-> q2, expanded |-> <<current>>]
        ELSE [resolved |-> res, to_resolve |-> rest, expanded |-> <<>>]

\* ResolveStep following `optional` in place of `requires` when
\* include_optional is set
ResolveStepOptionalOnly(g, res, q, include_optional) ==
    LET current == Head(q)
        rest == Tail(q)
        res1 == res \cup {current}
        q1 == IF Has(g, current) /\ ~include_optional
              THEN Enqueue(g.val[current].requires, 1, res1, rest)
              ELSE rest
        q2 == IF Has(g, current) /\ include_optional
              THEN Enqueue(g.val[current].optional, 1, res1, q1)
              ELSE q1
    IN  IF current \in res
        THEN [resolved |-> res, to_resolve |-> rest, expanded |-> <<>>]
        ELSE [resolved |-> res1, to_resolve |-> q2,
              expanded |-> IF Has(g, current) THEN <<current>> ELSE <<>>]

\* lines 173-192: one pass of the while loop
ResolveStep(g, res, q, include_optional) ==
    LET current == Head(q)
        rest == Tail(q)
        res1 == res \cup {current}
        q1 == IF Has(g, current)
              THEN Enqueue(g.val[current].requires, 1, res1, rest)
              ELSE rest
        q2 == IF Has(g, current) /\ include_optional
              THEN Enqueue(g.val[current].optional, 1, res1, q1)
              ELSE q1
    IN  IF current \in res
        THEN [resolved |-> res, to_resolve |-> rest, expanded |-> <<>>]
        ELSE [resolved |-> res1, to_resolve |-> q2,
              expanded |-> IF Has(g, current) THEN <<current>> ELSE <<>>]

\* lines 172-194: the while loop run to its end
RECURSIVE ResolveLoop(_, _, _, _)
ResolveLoop(g, res, q, include_optional) ==
    IF q = <<>> THEN res
    ELSE LET s == ResolveStep(g, res, q, include_optional)
         IN  ResolveLoop(g, s.resolved, s.to_resolve, include_optional)

----------------------------------------------------------------------------
(* The caller. *)

NoCall == [op |-> "none"]

NoLast == [op |-> "none"]

\* ghost: tells one call's record from the next
Turn == IF last.op = "none" THEN 0 ELSE 1 - last.turn

\* the locals of no call
Idle ==
    /\ pc' = "idle"
    /\ call' = NoCall
    /\ graph' = EmptyDict
    /\ resolved' = {}
    /\ to_resolve' = <<>>
    /\ expanded' = <<>>
    /\ targets' = EmptyDict
    /\ idx' = 0
    /\ all_deps' = {}

\* resolve(service_name, include_optional), line 168-170
ResolveCall(service_name, include_optional) ==
    /\ pc = "idle"
    /\ LET r == get_graph(FALSE, store, cacheFile, now, "none")
       IN  /\ graph' = r.graph
           /\ cacheFile' = r.cache
    /\ call' = [op |-> "resolve", service_name |-> service_name,
                include_optional |-> include_optional]
    /\ resolved' = {}
    /\ to_resolve' = <<service_name>>
    /\ expanded' = <<>>
    /\ pc' = "resolve"
    /\ UNCHANGED <<store, now, targets, idx, all_deps, last>>

\* lines 172-192
ResolveIter ==
    /\ pc = "resolve"
    /\ to_resolve # <<>>
    /\ LET s == ResolveStep(graph, resolved, to_resolve, call.include_optional)
       IN  /\ resolved' = s.resolved
           /\ to_resolve' = s.to_resolve
           /\ expanded' = expanded \o s.expanded
    /\ UNCHANGED <<store, cacheFile, now, pc, call, graph, targets, idx, all_deps, last>>

\* line 194
ResolveReturn ==
    /\ pc = "resolve"
    /\ to_resolve = <<>>
    /\ last' = [op |-> "resolve", turn |-> Turn, service_name |-> call.service_name,
                include_optional |-> call.include_optional,
                graph |-> graph, ret |-> resolved, expanded |-> expanded]
    /\ Idle
    /\ UNCHANGED <<store, cacheFile, now>>

----------------------------------------------------------------------------
(* get_graph and invalidate_cache called by the caller itself. *)

\* get_graph(force_rebuild); fault: what the file system does to the open()
\* of _load_cache, should the call come to it
GetGraphCall(force_rebuild, fault) ==
    /\ pc = "idle"
    /\ LET r == get_graph(force_rebuild, store, cacheFile, now, fault)
       IN  /\ cacheFile' = r.cache
           /\ last' = [op |-> "get_graph", turn |-> Turn, after |-> last.op,
                       force_rebuild |-> force_rebuild, fault |-> fault,
                       at |-> now, registry |-> store,
                       pre |-> cacheFile, post |-> r.cache,
                       ret |-> r.graph, built |-> r.built, raised |-> r.raised]
    /\ UNCHANGED <<store, now, pc, call, graph, resolved, to_resolve, expanded,
                   targets, idx, all_deps>>

\* invalidate_cache()
InvalidateCall ==
    /\ pc = "idle"
    /\ cacheFile' = invalidate_cache(cacheFile)
    /\ last' = [op |-> "invalidate_cache", turn |-> Turn, at |-> now,
                pre |-> cacheFile]
    /\ UNCHANGED <<store, now, pc, call, graph, resolved, to_resolve, expanded,
                   targets, idx, all_deps>>

(* The environment. *)

\* time passes
Tick ==
    /\ now < MaxTime
    /\ now' = now + 1
    /\ UNCHANGED <<store, cacheFile, pc, call, graph, resolved, to_resolve,
                   expanded, targets, idx, all_deps, last>>

\* a collaborator rewrites the registry
ChangeStore(st) ==
    /\ st # store
    /\ store' = st
    /\ UNCHANGED <<cacheFile, now, pc, call, graph, resolved, to_resolve,
                   expanded, targets, idx, all_deps, last>>

\* the cache file is damaged: it no longer parses, is left empty, or is left
\* a mapping without 'graph'; its mtime stays or becomes the time of damage
CorruptCache(kind, touch) ==
    /\ cacheFile.exists
    /\ cacheFile' = [exists |-> TRUE,
                     mtime |-> IF touch THEN now ELSE cacheFile.mtime,
                     content |-> [NoContent EXCEPT !.kind = kind]]
    /\ UNCHANGED <<store, now, pc, call, graph, resolved, to_resolve,
                   expanded, targets, idx, all_deps, last>>

----------------------------------------------------------------------------
(* get_backup_targets: lines 219-281. *)

DefaultStatuses == {"active", "development", "maintenance"}

\* set(include_status or [...]): None and the empty list give the default
EffectiveStatuses(include_status) ==
    IF include_status = {} THEN DefaultStatuses ELSE include_status

DependencyOf(service) == <<"dependency of", service>>

\* {**info, 'name': name, 'reason': reason}
Target(g, name, reason) ==
    [name |-> name, reason |-> reason, info |-> g.val[name]]

\* targets[name] = ... of the `all` branch, lines 275-279
AllInsert(t, g, name) == DictSet(t, name, Target(g, name, <<"all">>))

\* SelectiveInsert that adds the seed and drops its dependencies
SelectiveInsertSeedOnly(t, g, dep, service) ==
    IF ~Has(t, dep) /\ dep = service
    THEN DictSet(t, dep, Target(g, dep, <<"explicit">>))
    ELSE t

\* lines 263-268 of the `selective` branch: the guarded insertion
SelectiveInsert(t, g, dep, service) ==
    IF ~Has(t, dep)
    THEN DictSet(t, dep, Target(g, dep, IF dep = service THEN <<"explicit">>
                                         ELSE DependencyOf(service)))
    ELSE t

\* line 219-222
TargetsCall(policy, include, exclude, include_status) ==
    /\ pc = "idle"
    /\ LET r == get_graph(FALSE, store, cacheFile, now, "none")
       IN  /\ graph' = r.graph
           /\ cacheFile' = r.cache
    /\ call' = [op |-> "get_backup_targets", policy |-> policy,
                include |-> include, exclude |-> exclude,
                include_status |-> EffectiveStatuses(include_status),
                resolve_graphs |-> <<>>]
    /\ targets' = EmptyDict
    /\ pc' = "core"
    /\ UNCHANGED <<store, now, resolved, to_resolve, expanded, idx, all_deps, last>>

\* lines 225-236: the core service, then the branch of the policy
TargetsCore ==
    /\ pc = "core"
    /\ targets' = IF Has(graph, CORE)
                  THEN DictSet(targets, CORE, Target(graph, CORE, <<"core">>))
                  ELSE targets
    /\ pc' = IF call.policy \in {"core+infra", "selective", "all"}
             THEN call.policy ELSE "return"
    /\ idx' = 1
    /\ UNCHANGED <<store, cacheFile, now, call, graph, resolved, to_resolve,
                   expanded, all_deps, last>>

\* TargetsInfraIter without the is_infrastructure test
TargetsInfraIterAnyNode ==
    /\ pc = "core+infra"
    /\ idx <= Len(graph.keys)
    /\ LET name == graph.keys[idx]
           info == graph.val[name]
       IN  targets' = IF /\ name \notin call.exclude
                         /\ info.status \in call.include_status
                      THEN DictSet(targets, name,
                                   Target(graph, name, <<"infrastructure">>))
                      ELSE targets
    /\ idx' = idx + 1
    /\ UNCHANGED <<store, cacheFile, now, pc, call, graph, resolved, to_resolve,
                   expanded, all_deps, last>>

\* lines 238-245: one pass of the loop over graph.items()
TargetsInfraIter ==
    /\ pc = "core+infra"
    /\ idx <= Len(graph.keys)
    /\ LET name == graph.keys[idx]
           info == graph.val[name]
       IN  targets' = IF /\ info.is_infrastructure
                         /\ name \notin call.exclude
                         /\ info.status \in call.include_status
                      THEN DictSet(targets, name,
                                   Target(graph, name, <<"infrastructure">>))
                      ELSE targets
    /\ idx' = idx + 1
    /\ UNCHANGED <<store, cacheFile, now, pc, call, graph, resolved, to_resolve,
                   expanded, all_deps, last>>

\* the graph without the edges of the nodes that are excluded or have a
\* status outside the filter
Pruned(g, exclude, statuses) ==
    [keys |-> g.keys,
     val |-> [n \in DOMAIN g.val |->
                IF n \in exclude \/ g.val[n].status \notin statuses
                THEN [g.val[n] EXCEPT !.requires = <<>>, !.optional = <<>>]
                ELSE g.val[n]]]

\* TargetsSeed with resolve(service, include_optional=True)
TargetsSeedWithOptional ==
    /\ pc = "selective"
    /\ idx <= Len(call.include)
    /\ LET service == call.include[idx]
           r == get_graph(FALSE, store, cacheFile, now, "none")
       IN  IF service \in call.exclude
           THEN /\ idx' = idx + 1
                /\ UNCHANGED <<pc, all_deps, cacheFile, call>>
           ELSE /\ all_deps' = ResolveLoop(r.graph, {}, <<service>>, TRUE)
                /\ cacheFile' = r.cache
                /\ call' = [call EXCEPT !.resolve_graphs = Append(@, r.graph)]
                /\ pc' = "deps"
                /\ UNCHANGED idx
    /\ UNCHANGED <<store, now, graph, resolved, to_resolve, expanded,
                   targets, last>>

\* TargetsSeed whose resolve does not go past a node that is filtered out
TargetsSeedPruned ==
    /\ pc = "selective"
    /\ idx <= Len(call.include)
    /\ LET service == call.include[idx]
           r == get_graph(FALSE, store, cacheFile, now, "none")
       IN  IF service \in call.exclude
           THEN /\ idx' = idx + 1
                /\ UNCHANGED <<pc, all_deps, cacheFile, call>>
           ELSE /\ all_deps' = ResolveLoop(Pruned(r.graph, call.exclude, call.include_status),
                                         {}, <<service>>, FALSE)
                /\ cacheFile' = r.cache
                /\ call' = [call EXCEPT !.resolve_graphs = Append(@, r.graph)]
                /\ pc' = "deps"
                /\ UNCHANGED idx
    /\ UNCHANGED <<store, now, graph, resolved, to_resolve, expanded,
                   targets, last>>

\* lines 249-254: the next service of `include`; resolve calls get_graph anew
\* (line 168), and resolve_graphs keeps the graph each resolve worked on
TargetsSeed ==
    /\ pc = "selective"
    /\ idx <= Len(call.include)
    /\ LET service == call.include[idx]
           r == get_graph(FALSE, store, cacheFile, now, "none")
       IN  IF service \in call.exclude
           THEN /\ idx' = idx + 1
                /\ UNCHANGED <<pc, all_deps, cacheFile, call>>
           ELSE /\ all_deps' = ResolveLoop(r.graph, {}, <<service>>, FALSE)
                /\ cacheFile' = r.cache
                /\ call' = [call EXCEPT !.resolve_graphs = Append(@, r.graph)]
                /\ pc' = "deps"
                /\ UNCHANGED idx
    /\ UNCHANGED <<store, now, graph, resolved, to_resolve, expanded,
                   targets, last>>

\* TargetsDep without `dep in graph`: a name that is no node gets a target
\* with no info
TargetsDepNoNodeCheck ==
    /\ pc = "deps"
    /\ \E dep \in all_deps :
          /\ targets' = IF ~Has(graph, dep)
                        THEN IF dep \notin call.exclude /\ ~Has(targets, dep)
                             THEN DictSet(targets, dep,
                                          [name |-> dep,
                                           reason |-> IF dep = call.include[idx]
                                                      THEN <<"explicit">>
                                                      ELSE DependencyOf(call.include[idx]),
                                           info |-> [status |-> "unknown"]])
                             ELSE targets
                        ELSE IF /\ dep \notin call.exclude
                                /\ graph.val[dep].status \in call.include_status
                        THEN SelectiveInsert(targets, graph, dep, call.include[idx])
                        ELSE targets
          /\ all_deps' = all_deps \ {dep}
          /\ IF all_deps' = {}
             THEN pc' = "selective" /\ idx' = idx + 1
             ELSE UNCHANGED <<pc, idx>>
    /\ UNCHANGED <<store, cacheFile, now, call, graph, resolved, to_resolve,
                   expanded, last>>

\* lines 256-268: one pass of the loop over the set all_deps, in any order
TargetsDep ==
    /\ pc = "deps"
    /\ \E dep \in all_deps :
          /\ targets' = IF /\ Has(graph, dep)
                           /\ dep \notin call.exclude
                           /\ graph.val[dep].status \in call.include_status
                        THEN SelectiveInsert(targets, graph, dep, call.include[idx])
                        ELSE targets
          /\ all_deps' = all_deps \ {dep}
          /\ IF all_deps' = {}
             THEN pc' = "selective" /\ idx' = idx + 1
             ELSE UNCHANGED <<pc, idx>>
    /\ UNCHANGED <<store, cacheFile, now, call, graph, resolved, to_resolve,
                   expanded, last>>

\* lines 272-279: one pass of the loop over graph.items()
TargetsAllIter ==
    /\ pc = "all"
    /\ idx <= Len(graph.keys)
    /\ LET name == graph.keys[idx]
           info == graph.val[name]
       IN  targets' = IF /\ name \notin call.exclude
                         /\ info.status \in call.include_status
                      THEN AllInsert(targets, graph, name)
                      ELSE targets
    /\ idx' = idx + 1
    /\ UNCHANGED <<store, cacheFile, now, pc, call, graph, resolved, to_resolve,
                   expanded, all_deps, last>>

\* list(targets.values())
Values(d) == [i \in 1..Len(d.keys) |-> d.val[d.keys[i]]]

\* line 281
TargetsReturn ==
    /\ \/ pc = "return"
       \/ pc \in {"core+infra", "all"} /\ idx > Len(graph.keys)
       \/ pc = "selective" /\ idx > Len(call.include)
    /\ last' = [op |-> "get_backup_targets", turn |-> Turn, policy |-> call.policy,
                include |-> call.include, exclude |-> call.exclude,
                include_status |-> call.include_status,
                graph |-> graph, resolve_graphs |-> call.resolve_graphs,
                ret |-> Values(targets), earlier |-> last]
    /\ Idle
    /\ UNCHANGED <<store, cacheFile, now>>

----------------------------------------------------------------------------
(* Registries the runs start from: every registry with a manifest for each *)
(* name of a subset of `names`, holding at most k dependency entries in    *)
(* all, each naming a name of `names` (a node or not: a dangling edge).    *)

\* a dependency entry: manifest src lists dst under `required` or `optional`
Entries(nodes, names) ==
    [src : nodes, dst : names, kind : {"required", "optional"}]

RECURSIVE EntrySets(_, _, _)
EntrySets(nodes, names, k) ==
    IF k = 0 THEN {{}}
    ELSE LET P == EntrySets(nodes, names, k - 1)
         IN  P \cup {s \cup {e} : s \in P, e \in Entries(nodes, names)}

DepList(es, n, kind) ==
    SortNames({e.dst : e \in {x \in es : x.src = n /\ x.kind = kind}})

\* every node active, or one of them deprecated
StatusChoices(nodes) ==
    {[n \in nodes |-> "active"]}
    \cup {[n \in nodes |-> IF n = d THEN "deprecated" ELSE "active"] : d \in nodes}

RegistryOf(nodes, es, statusOf) ==
    [exists |-> TRUE,
     docs |-> [i \in 1..Cardinality(nodes) |->
                 LET n == SortNames(nodes)[i]
                 IN  Manifest(n, statusOf[n], DepList(es, n, "required"),
                              DepList(es, n, "optional"))]]

Registries(names, k) ==
    {RegistryOf(nodes, es, [n \in nodes |-> "active"]) :
        <<nodes, es>> \in UNION {{<<ns, e>> : e \in EntrySets(ns, names, k)} :
                                   ns \in SUBSET names}}

\* the state of a caller that has called nothing, over registry st
Start(st) ==
    /\ store = st
    /\ cacheFile = NoFile
    /\ now = 0
    /\ pc = "idle"
    /\ call = NoCall
    /\ graph = EmptyDict
    /\ resolved = {}
    /\ to_resolve = <<>>
    /\ expanded = <<>>
    /\ targets = EmptyDict
    /\ idx = 0
    /\ all_deps = {}
    /\ last = NoLast

----------------------------------------------------------------------------
(* One resolve call over every registry of ResolveNames. *)

ResolveNames == {"A", "B", "C", "D"}

InitResolve == \E st \in Registries(ResolveNames, MaxEdges) : Start(st)

NextResolve ==
    \/ /\ last.op = "none"
       /\ \E n \in ResolveNames, o \in BOOLEAN : ResolveCall(n, o)
    \/ ResolveIter
    \/ ResolveReturn

SpecResolve == InitResolve /\ [][NextResolve]_vars

(* One resolve call, scheduled fairly: the caller runs the loop to its end. *)

CycleNames == {"A", "B", "C"}

InitTerminate == \E st \in Registries(CycleNames, MaxCycleEdges) : Start(st)

NextTerminate ==
    \/ /\ last.op = "none"
       /\ \E n \in CycleNames, o \in BOOLEAN : ResolveCall(n, o)
    \/ ResolveIter
    \/ ResolveReturn

SpecTerminate == InitTerminate /\ [][NextTerminate]_vars /\ WF_vars(NextTerminate)

----------------------------------------------------------------------------
(* What resolve is to return, stated without its loop. *)

\* the names node n of g points at
Successors(g, n, include_optional) ==
    IF Has(g, n)
    THEN Range(g.val[n].requires)
         \cup (IF include_optional THEN Range(g.val[n].optional) ELSE {})
    ELSE {}

\* the least set that holds S and the successors of its members
RECURSIVE Closure(_, _, _)
Closure(g, S, include_optional) ==
    LET T == S \cup UNION {Successors(g, n, include_optional) : n \in S}
    IN  IF T = S THEN S ELSE Closure(g, T, include_optional)

NoRepeats(s) == \A i, j \in 1..Len(s) : s[i] = s[j] => i = j

\* C1: resolve(n, include_optional) returns exactly the names reachable from
\* n, n included, along `requires` edges, and along `optional` edges too when
\* include_optional is true, expanding only the names that are nodes of the
\* graph get_graph returned, which is the graph of the registry.
C1_ResolveIsReachableSet ==
    last.op = "resolve" =>
        /\ last.graph.val = BuildGraph(store).val
        /\ last.ret = Closure(last.graph, {last.service_name}, last.include_optional)

\* C1: A requires [B, C], C requires [D]: resolve("A", False) = {A, B, C, D}
C1_Witness ==
    /\ last.op = "resolve"
    /\ last.service_name = "A"
    /\ ~last.include_optional
    /\ Has(last.graph, "A") /\ last.graph.val["A"].requires = <<"B", "C">>
    /\ Has(last.graph, "C") /\ last.graph.val["C"].requires = <<"D">>
    /\ Has(last.graph, "B") /\ last.graph.val["B"].requires = <<>>
    /\ last.ret = {"A", "B", "C", "D"}

\* C2: every resolve call returns, cycles and self-loops or not; no node is
\* expanded twice in one call; and where A requires B and B requires A,
\* resolve("A", False) returns {A, B}.
C2_ResolveTerminates ==
    /\ (pc = "resolve") ~> (last.op = "resolve")
    /\ [](NoRepeats(expanded))
    /\ [](/\ last.op = "resolve"
          /\ last.service_name = "A"
          /\ ~last.include_optional
          /\ Has(last.graph, "A") /\ last.graph.val["A"].requires = <<"B">>
          /\ Has(last.graph, "B") /\ last.graph.val["B"].requires = <<"A">>
          => last.ret = {"A", "B"})

\* C2: a call on the cycle A <-> B has returned, having expanded both
C2_Witness ==
    /\ last.op = "resolve"
    /\ last.service_name = "A"
    /\ ~last.include_optional
    /\ Has(last.graph, "A") /\ last.graph.val["A"].requires = <<"B">>
    /\ Has(last.graph, "B") /\ last.graph.val["B"].requires = <<"A">>
    /\ last.expanded = <<"A", "B">>
    /\ last.ret = {"A", "B"}

\* C3: the set resolve returns always holds the name asked for, and is exactly
\* {n} when n is not a node of the graph, with or without include_optional.
C3_ResolveUnknownIsSelf ==
    last.op = "resolve" =>
        /\ last.service_name \in last.ret
        /\ ~Has(last.graph, last.service_name) => last.ret = {last.service_name}

\* C3: a name that is no node of a graph with nodes and edges was resolved
C3_Witness ==
    /\ last.op = "resolve"
    /\ ~Has(last.graph, last.service_name)
    /\ \E m \in DOMAIN last.graph.val :
           last.service_name \in Range(last.graph.val[m].requires)
    /\ last.ret = {last.service_name}

\* C19: on one graph, what resolve(n, True) returns holds everything that
\* resolve(n, False) returns.
C19_OptionalIsSuperset ==
    last.op = "resolve" =>
        LET required == ResolveLoop(last.graph, {}, <<last.service_name>>, FALSE)
            both == ResolveLoop(last.graph, {}, <<last.service_name>>, TRUE)
        IN  /\ required \subseteq both
            /\ last.ret = IF last.include_optional THEN both ELSE required

\* C19: a resolve(n, True) returned more than resolve(n, False) does, which
\* is itself more than n
C19_Witness ==
    /\ last.op = "resolve"
    /\ last.include_optional
    /\ LET required == ResolveLoop(last.graph, {}, <<last.service_name>>, FALSE)
       IN  /\ Cardinality(required) >= 2
           /\ required \subseteq last.ret
           /\ required # last.ret

----------------------------------------------------------------------------
(* One get_backup_targets call over every registry of TargetNames. *)

TargetNames == {CORE, "redis", "A"}

\* A requires [B, C], C requires [redis], redis an infrastructure service
ScenarioRegistry ==
    [exists |-> TRUE,
     docs |-> <<Manifest("A", "active", <<"B", "C">>, <<>>),
                Manifest("B", "active", <<>>, <<>>),
                Manifest("C", "active", <<"redis">>, <<>>),
                Manifest("redis", "active", <<>>, <<>>)>>]

\* A requires [B], B requires [C]
ChainRegistry(status) ==
    [exists |-> TRUE,
     docs |-> <<Manifest("A", "active", <<"B">>, <<>>),
                Manifest("B", status, <<"C">>, <<>>),
                Manifest("C", "active", <<>>, <<>>)>>]

TargetRegistries ==
    {RegistryOf(x[1], x[2], x[3]) :
        x \in UNION {{<<ns, e, f>> : e \in EntrySets(ns, TargetNames, MaxTargetEdges),
                                     f \in StatusChoices(ns)} :
                      ns \in SUBSET TargetNames}}
    \cup {ScenarioRegistry}
    \cup {ChainRegistry(status) : status \in {"active", "deprecated"}}

\* the `include` lists of no, one or two services, repeated or not
IncludeLists ==
    {<<>>} \cup {<<a>> : a \in TargetNames} \cup {<<a, b>> : a, b \in TargetNames}

ExcludeSets == {{}} \cup {{n} : n \in TargetNames \cup {"B"}}

StatusFilters == {{}, {"deprecated"}}

InitTargets == \E st \in TargetRegistries : Start(st)

NextTargets ==
    \/ /\ last.op = "none"
       /\ \E policy \in {"core", "core+infra", "all"},
             exclude \in ExcludeSets, include_status \in StatusFilters :
               TargetsCall(policy, <<>>, exclude, include_status)
    \/ /\ last.op = "none"
       /\ \E include \in IncludeLists,
             exclude \in ExcludeSets, include_status \in StatusFilters :
               TargetsCall("selective", include, exclude, include_status)
    \/ TargetsCore
    \/ TargetsInfraIter
    \/ TargetsSeed
    \/ TargetsDep
    \/ TargetsAllIter
    \/ TargetsReturn

SpecTargets == InitTargets /\ [][NextTargets]_vars

----------------------------------------------------------------------------
(* Properties of get_backup_targets. *)

IsTargetsResult == last.op = "get_backup_targets"

\* the reasons under which name n is listed in the returned list
ReasonsOf(ret, n) == {ret[i].reason : i \in {j \in 1..Len(ret) : ret[j].name = n}}

\* services a and b are both listed in `include`, b requires a, both are
\* nodes, neither is excluded, both have an allowed status
BothIncluded(a, b) ==
    /\ a # b
    /\ {a, b} \subseteq Range(last.include)
    /\ Has(last.graph, a) /\ Has(last.graph, b)
    /\ a \in Range(last.graph.val[b].requires)
    /\ {a, b} \cap last.exclude = {}
    /\ {last.graph.val[a].status, last.graph.val[b].status} \subseteq last.include_status

\* C4: under `selective`, with A and B both in `include` and B requiring A,
\* A is returned with reason `explicit`, never as a dependency of B, in
\* whatever order `include` lists them.
C4_ExplicitWhateverTheOrder ==
    IsTargetsResult /\ last.policy = "selective" =>
        \A a, b \in TargetNames \ {CORE} :
            BothIncluded(a, b) => ReasonsOf(last.ret, a) = {<<"explicit">>}

\* C5: within one get_backup_targets call, whatever the policy, an entry of
\* the result map is never replaced once it is there; the core service
\* entered with reason `core` keeps it.
C5_EntryNeverOverwritten ==
    [][call.op = "get_backup_targets" /\ call' = call =>
          \A n \in DOMAIN targets.val :
              Has(targets', n) /\ targets'.val[n] = targets.val[n]]_vars

\* the <<name, reason>> pairs of a returned list
Pairs(ret) == {<<ret[j].name, ret[j].reason>> : j \in 1..Len(ret)}

NamesOf(ret) == {ret[j].name : j \in 1..Len(ret)}

\* what seed s is to contribute: the names of its required-only closure that
\* are nodes, are not excluded and have an allowed status
SeedTargets(g, s, exclude, statuses) ==
    {d \in Closure(g, {s}, FALSE) :
        Has(g, d) /\ d \notin exclude /\ g.val[d].status \in statuses}

\* the seeds of `include` that are not excluded, by position
LiveSeeds(include, exclude) == {i \in 1..Len(include) : include[i] \notin exclude}

\* the first live seed that contributes d
FirstSeed(g, include, exclude, statuses, d) ==
    CHOOSE i \in LiveSeeds(include, exclude) :
        /\ d \in SeedTargets(g, include[i], exclude, statuses)
        /\ \A k \in LiveSeeds(include, exclude) :
              d \in SeedTargets(g, include[k], exclude, statuses) => i <= k

SeedReason(s, d) == IF d = s THEN <<"explicit">> ELSE DependencyOf(s)

\* C13: under `selective` the targets are the core service, if it is a node,
\* and for every seed of `include` that is not excluded the nodes of its
\* required-only closure that are not excluded and have an allowed status;
\* each is listed with the reason of the first seed that brought it,
\* `explicit` when it is that seed and `dependency of <seed>` otherwise,
\* unless it was there already as the core service; an excluded seed brings
\* nothing.
C13_SelectiveTargets ==
    IsTargetsResult /\ last.policy = "selective" =>
        LET g == last.graph
            live == LiveSeeds(last.include, last.exclude)
            brought == UNION {SeedTargets(g, last.include[i], last.exclude,
                                          last.include_status) : i \in live}
        IN  /\ NamesOf(last.ret) = brought \cup (IF Has(g, CORE) THEN {CORE} ELSE {})
            /\ \A j \in 1..Len(last.ret) :
                  LET d == last.ret[j].name
                  IN  last.ret[j].reason =
                        IF d = CORE THEN <<"core">>
                        ELSE SeedReason(last.include[FirstSeed(g, last.include,
                                 last.exclude, last.include_status, d)], d)

\* C13: include = [A] on A requires [B, C], C requires [redis] gave A as
\* explicit and B, C, redis as dependencies of A
C13_Witness ==
    /\ IsTargetsResult /\ last.policy = "selective"
    /\ last.include = <<"A">>
    /\ last.graph.val = BuildGraph(ScenarioRegistry).val
    /\ Pairs(last.ret) = {<<"A", <<"explicit">>>>, <<"B", DependencyOf("A")>>,
                          <<"C", DependencyOf("A")>>, <<"redis", DependencyOf("A")>>}

\* C14: under `core+infra` the targets are exactly the core service with
\* reason `core`, if it is a node, and every node that is an infrastructure
\* service by its lower-cased name, has an allowed status and is not
\* excluded, with reason `infrastructure`; under `core` the core service alone.
C14_CoreAndInfraTargets ==
    IsTargetsResult /\ last.policy \in {"core", "core+infra"} =>
        LET g == last.graph
            core == IF Has(g, CORE) THEN {<<CORE, <<"core">>>>} ELSE {}
            infra == {n \in DOMAIN g.val :
                        /\ Lower(n) \in INFRASTRUCTURE_SERVICES
                        /\ g.val[n].status \in last.include_status
                        /\ n \notin last.exclude}
        IN  /\ Pairs(last.ret) =
                 core \cup (IF last.policy = "core+infra"
                            THEN {<<n, <<"infrastructure">>>> : n \in infra} ELSE {})
            /\ Len(last.ret) = Cardinality(Pairs(last.ret))

\* C14: on the scenario graph `core+infra` returned redis alone
C14_Witness ==
    /\ IsTargetsResult /\ last.policy = "core+infra"
    /\ last.graph.val = BuildGraph(ScenarioRegistry).val
    /\ last.exclude = {}
    /\ Pairs(last.ret) = {<<"redis", <<"infrastructure">>>>}
    /\ {"A", "B", "C"} \cap NamesOf(last.ret) = {}

\* C15: whatever the policy, every target returned is not excluded and has a
\* status of include_status, which is {active, development, maintenance}
\* when the caller gives none.
C15_TargetsPassFilters ==
    IsTargetsResult =>
        \A j \in 1..Len(last.ret) :
            /\ last.ret[j].name \notin last.exclude
            /\ last.ret[j].info.status \in last.include_status

\* C16: whatever the policy and the include list, no two targets returned
\* share a name, and each carries one reason out of core, infrastructure,
\* explicit, all and dependency of a seed of `include`.
C16_TargetsDeduplicated ==
    IsTargetsResult =>
        /\ \A i, j \in 1..Len(last.ret) :
              last.ret[i].name = last.ret[j].name => i = j
        /\ \A j \in 1..Len(last.ret) :
              last.ret[j].reason \in
                  {<<"core">>, <<"infrastructure">>, <<"explicit">>, <<"all">>}
                  \cup {DependencyOf(s) : s \in Range(last.include)}

\* C16: seeds that overlap (the second is a dependency of the first) and a
\* seed listed twice each gave one target per name
C16_Witness ==
    /\ IsTargetsResult /\ last.policy = "selective"
    /\ Len(last.include) = 2
    /\ \/ last.include[1] = last.include[2]
       \/ last.include[2] \in SeedTargets(last.graph, last.include[1],
                                          last.exclude, last.include_status)
    /\ last.include[2] \in NamesOf(last.ret)
    /\ Len(last.ret) = Cardinality(NamesOf(last.ret))

\* C18: every target returned is a node of the graph and carries that node's
\* info: a seed that is no node, and a dependency named by a node without
\* being one, give no target (and the call returns).
C18_TargetsAreNodes ==
    IsTargetsResult =>
        \A j \in 1..Len(last.ret) :
            /\ Has(last.graph, last.ret[j].name)
            /\ last.ret[j].info = last.graph.val[last.ret[j].name]

\* C18: a `selective` call returned targets though one seed was no node and
\* the closure of another held a name that is no node
C18_Witness ==
    /\ IsTargetsResult /\ last.policy = "selective"
    /\ \E s \in Range(last.include) \ last.exclude : ~Has(last.graph, s)
    /\ \E s \in Range(last.include) \ last.exclude :
          /\ Has(last.graph, s)
          /\ \E d \in Closure(last.graph, {s}, FALSE) :
                ~Has(last.graph, d) /\ d \notin last.exclude
          /\ s \in NamesOf(last.ret)

(* Two get_backup_targets calls with the same arguments, one after the    *)
(* other, both served by the one envelope that is in the cache file.       *)

InitTwice ==
    \E st \in TargetRegistries :
        /\ store = st
        /\ cacheFile = save_cache(BuildGraph(st), 0)
        /\ now = 0
        /\ pc = "idle"
        /\ call = NoCall
        /\ graph = EmptyDict
        /\ resolved = {}
        /\ to_resolve = <<>>
        /\ expanded = <<>>
        /\ targets = EmptyDict
        /\ idx = 0
        /\ all_deps = {}
        /\ last = NoLast

NextTwice ==
    \/ /\ last.op = "none"
       /\ \E policy \in {"core", "core+infra", "all"},
             exclude \in ExcludeSets, include_status \in StatusFilters :
               TargetsCall(policy, <<>>, exclude, include_status)
    \/ /\ last.op = "none"
       /\ \E include \in IncludeLists,
             exclude \in ExcludeSets, include_status \in StatusFilters :
               TargetsCall("selective", include, exclude, include_status)
    \/ /\ last.op = "get_backup_targets"
       /\ last.earlier.op = "none"
       /\ TargetsCall(last.policy, last.include, last.exclude, last.include_status)
    \/ TargetsCore
    \/ TargetsInfraIter
    \/ TargetsSeed
    \/ TargetsDep
    \/ TargetsAllIter
    \/ TargetsReturn

SpecTwice == InitTwice /\ [][NextTwice]_vars

\* C17: a get_backup_targets call that repeats the arguments of the call
\* before it, over the same cached graph, returns the same targets in the
\* same order, whatever the policy.
C17_SameCallSameOrder ==
    /\ IsTargetsResult
    /\ last.earlier.op = "get_backup_targets"
    /\ last.policy = last.earlier.policy
    /\ last.include = last.earlier.include
    /\ last.exclude = last.earlier.exclude
    /\ last.include_status = last.earlier.include_status
    /\ last.graph = last.earlier.graph
    => last.ret = last.earlier.ret

----------------------------------------------------------------------------
(* The cache over time: get_graph and invalidate_cache calls of one caller, *)
(* the clock and the registry changing in between.                         *)

MissingRegistry == [exists |-> FALSE, docs |-> <<>>]

\* no directory; an empty one; one manifest; two, globbed in an order that
\* is not the sorted one
CacheRegistries ==
    {MissingRegistry,
     [exists |-> TRUE, docs |-> <<>>],
     [exists |-> TRUE, docs |-> <<Manifest("A", "active", <<>>, <<>>)>>],
     [exists |-> TRUE, docs |-> <<Manifest("B", "active", <<"A">>, <<>>),
                                  Manifest("A", "active", <<>>, <<>>)>>]}

Init == \E st \in CacheRegistries : Start(st)

Next ==
    \/ \E force_rebuild \in BOOLEAN : GetGraphCall(force_rebuild, "none")
    \/ InvalidateCall
    \/ \E n \in {"A", "B"}, o \in BOOLEAN : ResolveCall(n, o)
    \/ ResolveIter
    \/ ResolveReturn
    \/ Tick
    \/ \E st \in CacheRegistries : ChangeStore(st)

Spec == Init /\ [][Next]_vars

(* get_graph and invalidate_cache over a file system that fails. *)

NextFault ==
    \/ \E force_rebuild \in BOOLEAN, fault \in {"none", "read_error"} :
          GetGraphCall(force_rebuild, fault)
    \/ InvalidateCall
    \/ Tick
    \/ \E st \in CacheRegistries : ChangeStore(st)
    \/ \E kind \in {"garbage", "empty", "nograph"}, touch \in BOOLEAN :
          CorruptCache(kind, touch)

SpecFault == Init /\ [][NextFault]_vars

----------------------------------------------------------------------------
(* Properties of the cache. *)

IsGetGraph == last.op = "get_graph"

\* the age of the file the call found, -1 when it found none
AgeFound == IF last.pre.exists THEN last.at - last.pre.mtime ELSE -1

FoundEnvelope == last.pre.exists /\ last.pre.content.kind = "envelope"

\* C6: freshness counts from the time the envelope was generated: a
\* get_graph(False) that finds an envelope younger than TTL returns its graph
\* and builds nothing, one that finds it aged TTL or more rebuilds; serving
\* the envelope does not change its generation time or the file.
C6_FreshnessFromGeneration ==
    IsGetGraph /\ ~last.force_rebuild /\ FoundEnvelope =>
        IF last.at - last.pre.content.generated < TTL
        THEN /\ ~last.built
             /\ last.ret = last.pre.content.graph
             /\ last.post = last.pre
        ELSE /\ last.built
             /\ last.ret = BuildGraph(last.registry)

\* C6: a get_graph(False) found the envelope aged exactly TTL and rebuilt
C6_Witness ==
    /\ IsGetGraph /\ ~last.force_rebuild /\ FoundEnvelope
    /\ last.at - last.pre.content.generated = TTL
    /\ last.pre.content.graph.val # BuildGraph(last.registry).val
    /\ last.built
    /\ last.ret = BuildGraph(last.registry)

\* C7: get_graph(False) on a readable envelope younger than TTL returns the
\* envelope's graph, does not run the Graph Builder (the only reader of the
\* registry) and leaves the cache file as it was, even when the registry
\* no longer builds to that graph.
C7_HitTouchesNothing ==
    /\ IsGetGraph /\ ~last.force_rebuild /\ FoundEnvelope
    /\ last.at - last.pre.mtime < TTL
    /\ last.fault = "none"
    => /\ last.ret = last.pre.content.graph
       /\ ~last.built
       /\ last.post = last.pre

\* C7: a cached graph was served that the registry no longer builds to
C7_Witness ==
    /\ IsGetGraph /\ ~last.force_rebuild /\ FoundEnvelope
    /\ last.at - last.pre.mtime < TTL
    /\ last.fault = "none"
    /\ last.ret.val # BuildGraph(last.registry).val
    /\ ~last.built
    /\ cacheFile = last.pre

\* the step is the return of a get_graph(force_rebuild) call
GetGraphStep(force_rebuild) ==
    /\ last' # last
    /\ last'.op = "get_graph"
    /\ last'.force_rebuild = force_rebuild

\* C8: a get_graph that is forced, or finds no cache file, or finds a stale
\* one, runs the Graph Builder, writes a new envelope holding the graph built
\* and returns that graph; a get_graph(False) that follows it within the TTL,
\* the registry unchanged, returns the same graph.
C8_RebuildPersistsAndReturns ==
    /\ [](IsGetGraph /\ (last.force_rebuild \/ AgeFound = -1 \/ AgeFound >= TTL) =>
            /\ last.built
            /\ last.ret = BuildGraph(last.registry)
            /\ last.post.exists
            /\ last.post.content.kind = "envelope"
            /\ last.post.content.generated = last.at
            /\ last.post.content.graph.val = last.ret.val)
    /\ [][/\ IsGetGraph /\ last.built
           /\ GetGraphStep(FALSE)
           /\ now - last.at < TTL
           /\ store = last.registry
           => last'.ret.val = last.ret.val /\ ~last'.built]_vars

\* C9: once invalidate_cache has returned there is no cache file, and the
\* caller's next get_graph(False) runs the Graph Builder and returns the graph
\* of the registry as it is then.
C9_InvalidateForcesRebuild ==
    /\ last.op = "invalidate_cache" /\ pc = "idle" => ~cacheFile.exists
    /\ IsGetGraph /\ last.after = "invalidate_cache" =>
          /\ ~last.pre.exists
          /\ last.built
          /\ ~last.raised
          /\ last.ret = BuildGraph(last.registry)

\* C9: a get_graph(False) right after an invalidation rebuilt a graph with nodes
C9_Witness ==
    /\ IsGetGraph /\ last.after = "invalidate_cache"
    /\ ~last.force_rebuild
    /\ last.built
    /\ last.ret.keys # <<>>

----------------------------------------------------------------------------
(* A rebuild in steps, with a second caller sharing the cache file.  The   *)
(* caller of pc runs get_graph down to _build_graph: it reads the registry *)
(* (lines 113-150), then _save_cache opens the file for writing, which     *)
(* truncates it (line 89), yaml.dump writes the document through the       *)
(* file's buffer (line 90) and the `with` closes it.  The calls of the     *)
(* second caller fall between these steps.                                 *)

\* the first n nodes of a dumped graph
Prefix(g, n) ==
    [keys |-> SubSeq(g.keys, 1, n),
     val |-> [k \in {g.keys[i] : i \in 1..n} |-> g.val[k]]]

\* what the file holds once yaml.dump has flushed the first n nodes of g: the
\* top-level keys go out sorted, `generated` then `graph`, so a flushed
\* prefix that ends between two nodes parses to a mapping with a shorter
\* graph; nothing is flushed yet right after the open
Flushed(g, n, generated) ==
    IF n = 0 THEN [NoContent EXCEPT !.kind = "empty"]
    ELSE [kind |-> "partial", generated |-> generated, ttl_seconds |-> 0,
          service_count |-> 0, graph |-> Prefix(YamlDump(g), n)]

\* lines 55-60 and 113-150: get_graph goes to _build_graph, which reads the
\* registry; the directory is there (without it the call saves nothing and
\* is the one step of GetGraphCall)
BuildBegin(force_rebuild) ==
    /\ pc = "idle"
    /\ force_rebuild \/ ~is_cache_valid(cacheFile, now)
    /\ store.exists
    /\ graph' = BuildGraph(store)
    /\ call' = [op |-> "get_graph", force_rebuild |-> force_rebuild,
                at |-> now, registry |-> store, pre |-> cacheFile,
                generated |-> 0, invalidated |-> FALSE, invalidated_over |-> store]
    /\ pc' = "save"
    /\ UNCHANGED <<store, cacheFile, now, resolved, to_resolve, expanded,
                   targets, idx, all_deps, last>>

\* lines 83-89: cache_data is made, open(cache_file, 'w') creates or
\* truncates the file
SaveOpen ==
    /\ pc = "save"
    /\ cacheFile' = [exists |-> TRUE, mtime |-> now,
                     content |-> Flushed(graph, 0, now)]
    /\ call' = [call EXCEPT !.generated = now]
    /\ idx' = 0
    /\ pc' = "write"
    /\ UNCHANGED <<store, now, graph, resolved, to_resolve, expanded,
                   targets, all_deps, last>>

\* the file after the writer has put bytes at its offset: a file unlinked
\* since the open stays away (the bytes go to the orphaned inode); a file
\* another caller has rewritten with the same document keeps it; bytes of
\* two different documents do not parse
AfterWrite(cache, g, content, t) ==
    IF ~cache.exists THEN cache
    ELSE IF cache.content.kind \in {"empty", "partial"}
    THEN [exists |-> TRUE, mtime |-> t, content |-> content]
    ELSE IF cache.content.kind = "envelope" /\ cache.content.graph = YamlDump(g)
    THEN [cache EXCEPT !.mtime = t]
    ELSE [exists |-> TRUE, mtime |-> t, content |-> [NoContent EXCEPT !.kind = "garbage"]]

\* line 90: yaml.dump, the buffer flushed through the next node
SaveWrite ==
    /\ pc = "write"
    /\ idx < Len(graph.keys)
    /\ idx' = idx + 1
    /\ cacheFile' = AfterWrite(cacheFile, graph,
                               Flushed(graph, idx + 1, call.generated), now)
    /\ UNCHANGED <<store, now, pc, call, graph, resolved, to_resolve, expanded,
                   targets, all_deps, last>>

\* lines 90-91 and 155: the rest is flushed, the file closed, the graph returned
SaveClose ==
    /\ pc = "write"
    /\ idx = Len(graph.keys)
    /\ cacheFile' = AfterWrite(cacheFile, graph,
                               save_cache(graph, call.generated).content, now)
    /\ last' = [op |-> "get_graph", turn |-> Turn, after |-> last.op,
                force_rebuild |-> call.force_rebuild, fault |-> "none",
                at |-> call.at, registry |-> call.registry,
                pre |-> call.pre, post |-> cacheFile',
                ret |-> graph, built |-> TRUE, raised |-> FALSE,
                during |-> "idle", invalidated |-> call.invalidated,
                invalidated_over |-> call.invalidated_over]
    /\ Idle
    /\ UNCHANGED <<store, now>>

\* get_graph(False) of the second caller, while the first is where pc says
OtherGetGraph ==
    /\ pc \in {"save", "write"}
    /\ LET r == get_graph(FALSE, store, cacheFile, now, "none")
       IN  /\ cacheFile' = r.cache
           /\ last' = [op |-> "get_graph", turn |-> Turn, after |-> last.op,
                       force_rebuild |-> FALSE, fault |-> "none",
                       at |-> now, registry |-> store,
                       pre |-> cacheFile, post |-> r.cache,
                       ret |-> r.graph, built |-> r.built, raised |-> r.raised,
                       during |-> pc, invalidated |-> FALSE,
                       invalidated_over |-> store]
    /\ UNCHANGED <<store, now, pc, call, graph, resolved, to_resolve, expanded,
                   targets, idx, all_deps>>

\* invalidate_cache() of the second caller, while the first is rebuilding
OtherInvalidate ==
    /\ pc \in {"save", "write"}
    /\ cacheFile' = invalidate_cache(cacheFile)
    /\ call' = [call EXCEPT !.invalidated = TRUE, !.invalidated_over = store]
    /\ UNCHANGED <<store, now, pc, graph, resolved, to_resolve, expanded,
                   targets, idx, all_deps, last>>

(* Readers during a rebuild, the registry left alone. *)

NextShared ==
    \/ \E force_rebuild \in BOOLEAN : BuildBegin(force_rebuild)
    \/ SaveOpen
    \/ SaveWrite
    \/ SaveClose
    \/ OtherGetGraph
    \/ Tick

SpecShared == Init /\ [][NextShared]_vars

\* C11: a get_graph(False) that runs while another caller's rebuild is
\* writing the cache file returns the complete graph of a Graph Builder pass
\* over the registry, never a part of it.
C11_ReaderNeverSeesPartial ==
    /\ IsGetGraph
    /\ "during" \in DOMAIN last
    /\ last.during = "write"
    => last.ret.val = BuildGraph(last.registry).val

(* An invalidation by the second caller during a rebuild, the registry    *)
(* changing meanwhile.                                                     *)

\* one rebuild, the second caller's invalidation in its course, and the
\* get_graph(False) that comes after the two
NextRace ==
    \/ /\ last.op = "none"
       /\ \E force_rebuild \in BOOLEAN : BuildBegin(force_rebuild)
    \/ SaveOpen
    \/ SaveWrite
    \/ SaveClose
    \/ OtherInvalidate
    \/ /\ IsGetGraph
       /\ "during" \in DOMAIN last
       /\ GetGraphCall(FALSE, "none")
    \/ Tick
    \/ \E st \in CacheRegistries : ChangeStore(st)

SpecRace == Init /\ [][NextRace]_vars

\* the rebuild that has just returned read the registry, the registry was
\* changed, and invalidate_cache ran over the changed registry while the
\* rebuild was still in flight
RaceFinished ==
    /\ pc = "idle"
    /\ IsGetGraph
    /\ "invalidated" \in DOMAIN last
    /\ last.invalidated
    /\ last.registry # last.invalidated_over

\* C12: when invalidate_cache ran during a rebuild that had read the registry
\* before a manifest changed, the next get_graph(False) after both have
\* finished returns the graph of the registry as it is now, not the graph of
\* that rebuild.
C12_NextGetResolvesRace ==
    [][RaceFinished /\ GetGraphStep(FALSE)
         => last'.ret.val = BuildGraph(store).val]_vars

----------------------------------------------------------------------------
(* Builds over registries that hold manifests the builder cannot use.      *)

\* the number of files of such a registry
MaxDocs == 3

\* the file does not parse: yaml.safe_load raises
Unparseable == [Manifest("A", "active", <<>>, <<>>) EXCEPT !.parse = "error"]

\* the file is empty: yaml.safe_load returns None
EmptyDocument == [Manifest("A", "active", <<>>, <<>>) EXCEPT !.parse = "empty"]

\* a mapping without 'name'
Nameless == [Manifest("A", "active", <<"B">>, <<>>) EXCEPT !.hasName = FALSE]

\* a manifest with the dependencies as a flat list
LegacyManifest(name, required) ==
    [Manifest(name, "active", required, <<>>) EXCEPT !.depsFormat = "list"]

\* a manifest without `dependencies`
BareManifest(name) ==
    [Manifest(name, "active", <<>>, <<>>) EXCEPT !.depsFormat = "absent"]

MixedDocs ==
    {BareManifest("A"), Manifest("B", "active", <<"A">>, <<"C">>),
     LegacyManifest("C", <<"B", "A">>), Unparseable, EmptyDocument, Nameless}

RECURSIVE DocLists(_)
DocLists(n) ==
    IF n = 0 THEN {<<>>}
    ELSE LET P == DocLists(n - 1)
         IN  P \cup {Append(l, d) : l \in {x \in P : Len(x) = n - 1}, d \in MixedDocs}

MixedRegistries == {[exists |-> TRUE, docs |-> l] : l \in DocLists(MaxDocs)}

InitBuild == \E st \in MixedRegistries : Start(st)

NextBuild ==
    \/ \E force_rebuild \in BOOLEAN : GetGraphCall(force_rebuild, "none")
    \/ InvalidateCall
    \/ Tick

SpecBuild == InitBuild /\ [][NextBuild]_vars

\* a descriptor the claim calls valid: it parses and has a name
ValidDescriptor(d) == d.parse = "ok" /\ d.hasName

\* C20: a build over a registry where manifests that do not parse, are empty
\* or have no name stand among valid ones, in any position, raises nothing
\* and returns a graph whose nodes are exactly the names of the valid ones.
C20_MalformedAreSkipped ==
    IsGetGraph /\ last.built =>
        /\ ~last.raised
        /\ DOMAIN last.ret.val =
             {last.registry.docs[i].name :
                i \in {j \in 1..Len(last.registry.docs) :
                         ValidDescriptor(last.registry.docs[j])}}

\* C20: a manifest without a name came first, two valid ones after it, and
\* the graph built has the two nodes
C20_Witness ==
    /\ IsGetGraph /\ last.built /\ ~last.raised
    /\ Len(last.registry.docs) = 3
    /\ last.registry.docs[1] = Nameless
    /\ ValidDescriptor(last.registry.docs[2])
    /\ ValidDescriptor(last.registry.docs[3])
    /\ Cardinality(DOMAIN last.ret.val) = 2

\* the last file of the registry that gives node n
SourceOf(registry, n) ==
    registry.docs[CHOOSE i \in 1..Len(registry.docs) :
        /\ ValidDescriptor(registry.docs[i]) /\ registry.docs[i].name = n
        /\ \A k \in 1..Len(registry.docs) :
              ValidDescriptor(registry.docs[k]) /\ registry.docs[k].name = n => k <= i]

\* the manifest with the list L of d as {required: L, optional: []}
Structured(d) == [d EXCEPT !.depsFormat = "dict", !.optional = <<>>]

\* C21: a manifest whose `dependencies` is the flat list L gives the node
\* that the same manifest with {required: L, optional: []} gives; the
\* `requires` and `optional` of every node built are the lists of the
\* manifest in their order, both empty when it has no `dependencies`.
C21_FormatsNormalized ==
    IsGetGraph /\ last.built =>
        \A n \in DOMAIN last.ret.val :
            LET d == SourceOf(last.registry, n)
                node == last.ret.val[n]
            IN  /\ d.depsFormat = "list" =>
                     /\ node = BuildGraph([exists |-> TRUE,
                                           docs |-> <<Structured(d)>>]).val[n]
                     /\ node.requires = d.required /\ node.optional = <<>>
                /\ d.depsFormat = "dict" =>
                     node.requires = d.required /\ node.optional = d.optional
                /\ d.depsFormat = "absent" =>
                     node.requires = <<>> /\ node.optional = <<>>

\* C21: a graph was built from a legacy manifest listing [B, A], a
\* structured one and one without dependencies
C21_Witness ==
    /\ IsGetGraph /\ last.built
    /\ DOMAIN last.ret.val = {"A", "B", "C"}
    /\ SourceOf(last.registry, "C").depsFormat = "list"
    /\ last.ret.val["C"].requires = <<"B", "A">>
    /\ last.ret.val["B"].optional = <<"C">>
    /\ last.ret.val["A"].requires = <<>>

----------------------------------------------------------------------------
(* The registry directory missing, or out of the caller's reach.           *)

\* a directory the caller may not list: pathlib's glob swallows the
\* PermissionError of scandir and yields nothing
UnlistableRegistry == [exists |-> TRUE, docs |-> <<>>]

\* get_graph when registry_path.exists() of line 115 raises: the stat of the
\* path is refused (PermissionError on a directory above it), which
\* Path.exists() passes on and nothing in _build_graph or get_graph catches;
\* the directory is there, and the call comes to line 115 when it is forced
\* or finds no fresh cache
GetGraphDenied(force_rebuild) ==
    /\ pc = "idle"
    /\ store.exists
    /\ force_rebuild \/ ~is_cache_valid(cacheFile, now)
    /\ last' = [op |-> "get_graph", turn |-> Turn, after |-> last.op,
                force_rebuild |-> force_rebuild, fault |-> "stat_error",
                at |-> now, registry |-> store,
                pre |-> cacheFile, post |-> cacheFile,
                ret |-> EmptyDict, built |-> FALSE, raised |-> TRUE]
    /\ UNCHANGED <<store, cacheFile, now, pc, call, graph, resolved, to_resolve,
                   expanded, targets, idx, all_deps>>

\* no graph of these behaviours has a node, so the loops over graph.items()
\* (TargetsInfraIter, TargetsAllIter) have no iteration to take
InitNoStore == \E st \in {MissingRegistry, UnlistableRegistry} : Start(st)

NextNoStore ==
    \/ \E force_rebuild \in BOOLEAN : GetGraphCall(force_rebuild, "none")
    \/ \E force_rebuild \in BOOLEAN : GetGraphDenied(force_rebuild)
    \/ /\ last.op # "get_backup_targets"
       /\ \E policy \in {"core", "core+infra", "all"},
             exclude \in ExcludeSets, include_status \in StatusFilters :
               TargetsCall(policy, <<>>, exclude, include_status)
    \/ /\ last.op # "get_backup_targets"
       /\ \E include \in IncludeLists,
             exclude \in ExcludeSets, include_status \in StatusFilters :
               TargetsCall("selective", include, exclude, include_status)
    \/ TargetsCore
    \/ TargetsSeed
    \/ TargetsDep
    \/ TargetsReturn
    \/ Tick

SpecNoStore == InitNoStore /\ [][NextNoStore]_vars

\* C22: a rebuild over a registry directory that is missing or cannot be
\* read returns the empty graph and raises nothing, and get_backup_targets
\* over the empty graph returns no target, whatever the policy.
C22_NoStoreNoTargets ==
    /\ IsGetGraph /\ (last.force_rebuild \/ AgeFound = -1 \/ AgeFound >= TTL) =>
          /\ ~last.raised
          /\ last.ret = EmptyDict
    /\ IsTargetsResult /\ last.graph = EmptyDict => last.ret = <<>>

----------------------------------------------------------------------------
(* A rebuild whose cache write fails.                                      *)

\* _save_cache when open() or yaml.dump or the close of the file raises: the
\* except of lines 92-93 logs and returns. What is left of the file is the
\* file system's: n = -1, open() failed and the file is as it was; n >= 0,
\* open() had truncated it and the first n nodes had reached it
save_cacheFails(g, cache, t, n) ==
    IF n < 0 THEN cache
    ELSE [exists |-> TRUE, mtime |-> t, content |-> Flushed(g, n, t)]

\* get_graph over a registry directory that is there, coming to _build_graph
\* (forced, no fresh file, or a fresh file that does not load), with the
\* write of _save_cache failing
GetGraphWriteFails(force_rebuild, n) ==
    /\ pc = "idle"
    /\ store.exists
    /\ \/ force_rebuild
       \/ ~is_cache_valid(cacheFile, now)
       \/ LoadRaises(cacheFile, "none")
    /\ n <= Len(BuildGraph(store).keys)
    /\ LET post == save_cacheFails(BuildGraph(store), cacheFile, now, n)
       IN  /\ cacheFile' = post
           /\ last' = [op |-> "get_graph", turn |-> Turn, after |-> last.op,
                       force_rebuild |-> force_rebuild, fault |-> "write_error",
                       at |-> now, registry |-> store,
                       pre |-> cacheFile, post |-> post,
                       ret |-> BuildGraph(store), built |-> TRUE, raised |-> FALSE]
    /\ UNCHANGED <<store, now, pc, call, graph, resolved, to_resolve, expanded,
                   targets, idx, all_deps>>

NextWriteFail ==
    \/ \E force_rebuild \in BOOLEAN : GetGraphCall(force_rebuild, "none")
    \/ \E force_rebuild \in BOOLEAN, n \in -1..2 :
          GetGraphWriteFails(force_rebuild, n)
    \/ Tick
    \/ \E st \in CacheRegistries : ChangeStore(st)

SpecWriteFail == Init /\ [][NextWriteFail]_vars

\* C23: a get_graph whose cache write fails returns the graph it built and
\* raises nothing, and the get_graph(False) that comes next is served nothing
\* of that rebuild: it builds again, or reads the file the rebuild found.
C23_WriteFailureIsHarmless ==
    /\ [](IsGetGraph /\ last.fault = "write_error" =>
            /\ ~last.raised
            /\ last.ret = BuildGraph(last.registry))
    /\ [][/\ IsGetGraph /\ last.fault = "write_error"
           /\ GetGraphStep(FALSE)
           => last'.built \/ last'.pre = last.pre]_vars

----------------------------------------------------------------------------
(* get_graph(False) and invalidate_cache one file-system call at a time,   *)
(* the calls of a second caller falling between them.                      *)

RecGetGraph(c, pre, r, raised) ==
    [op |-> "get_graph", turn |-> Turn, after |-> last.op,
     force_rebuild |-> FALSE, fault |-> "none", at |-> now, registry |-> store,
     pre |-> pre, post |-> r.cache, ret |-> r.graph, built |-> r.built,
     raised |-> raised, peer |-> c.peer]

RecInvalidate(c, pre, post, raised) ==
    [op |-> "invalidate_cache", turn |-> Turn, after |-> last.op, at |-> now,
     pre |-> pre, post |-> post, raised |-> raised, peer |-> c.peer]

\* line 288: cache_file.exists(); without the file the call is over
InvalidateExists ==
    /\ pc = "idle"
    /\ IF cacheFile.exists
       THEN /\ pc' = "unlink"
            /\ call' = [op |-> "invalidate_cache", pre |-> cacheFile, peer |-> "none"]
            /\ UNCHANGED last
       ELSE /\ last' = RecInvalidate([peer |-> "none"], cacheFile, cacheFile, FALSE)
            /\ UNCHANGED <<pc, call>>
    /\ UNCHANGED <<store, cacheFile, now, graph, resolved, to_resolve, expanded,
                   targets, idx, all_deps>>

\* line 289 leaving the file where it is
InvalidateUnlinkKeepsFile ==
    /\ pc = "unlink"
    /\ last' = RecInvalidate(call, call.pre, cacheFile, ~cacheFile.exists)
    /\ pc' = "idle"
    /\ call' = NoCall
    /\ UNCHANGED <<store, cacheFile, now, graph, resolved, to_resolve, expanded,
                   targets, idx, all_deps>>

\* line 289: cache_file.unlink(), which raises FileNotFoundError when the file
\* is no longer there; nothing in invalidate_cache catches it
InvalidateUnlink ==
    /\ pc = "unlink"
    /\ cacheFile' = NoFile
    /\ last' = RecInvalidate(call, call.pre, NoFile, ~cacheFile.exists)
    /\ pc' = "idle"
    /\ call' = NoCall
    /\ UNCHANGED <<store, now, graph, resolved, to_resolve, expanded,
                   targets, idx, all_deps>>

\* get_graph(False), line 64: cache_file.exists(); without the file
\* _is_cache_valid returns False and get_graph goes to _build_graph
ValidExists ==
    /\ pc = "idle"
    /\ IF cacheFile.exists
       THEN /\ pc' = "stat"
            /\ call' = [op |-> "get_graph", pre |-> cacheFile, peer |-> "none"]
            /\ UNCHANGED <<cacheFile, last>>
       ELSE /\ LET r == build_graph(store, cacheFile, now)
               IN  /\ cacheFile' = r.cache
                   /\ last' = RecGetGraph([peer |-> "none"], cacheFile, r, FALSE)
            /\ UNCHANGED <<pc, call>>
    /\ UNCHANGED <<store, now, graph, resolved, to_resolve, expanded,
                   targets, idx, all_deps>>

\* lines 67-68: cache_file.stat(), which raises FileNotFoundError when the
\* file is no longer there, outside any try; else the age is compared and a
\* stale file sends get_graph to _build_graph
ValidStat ==
    /\ pc = "stat"
    /\ IF ~cacheFile.exists
       THEN /\ last' = RecGetGraph(call, call.pre,
                          [graph |-> EmptyDict, cache |-> cacheFile, built |-> FALSE],
                          TRUE)
            /\ pc' = "idle"
            /\ call' = NoCall
            /\ UNCHANGED cacheFile
       ELSE IF is_cache_valid(cacheFile, now)
       THEN /\ pc' = "load"
            /\ UNCHANGED <<cacheFile, call, last>>
       ELSE /\ LET r == build_graph(store, cacheFile, now)
               IN  /\ cacheFile' = r.cache
                   /\ last' = RecGetGraph(call, call.pre, r, FALSE)
            /\ pc' = "idle"
            /\ call' = NoCall
    /\ UNCHANGED <<store, now, graph, resolved, to_resolve, expanded,
                   targets, idx, all_deps>>

\* lines 72-78: _load_cache; the open() of a file that is no longer there
\* raises inside the try
ValidLoad ==
    /\ pc = "load"
    /\ LET r == load_cache(store, cacheFile, now,
                           IF cacheFile.exists THEN "none" ELSE "read_error")
       IN  /\ cacheFile' = r.cache
           /\ last' = RecGetGraph(call, call.pre, r, r.raised)
    /\ pc' = "idle"
    /\ call' = NoCall
    /\ UNCHANGED <<store, now, graph, resolved, to_resolve, expanded,
                   targets, idx, all_deps>>

\* invalidate_cache() of the second caller, between two steps of the first
PeerInvalidate ==
    /\ pc \in {"unlink", "stat", "load"}
    /\ cacheFile.exists
    /\ cacheFile' = invalidate_cache(cacheFile)
    /\ call' = [call EXCEPT !.peer = "invalidate_cache"]
    /\ UNCHANGED <<store, now, pc, graph, resolved, to_resolve, expanded,
                   targets, idx, all_deps, last>>

NextSteps ==
    \/ InvalidateExists
    \/ InvalidateUnlink
    \/ ValidExists
    \/ ValidStat
    \/ ValidLoad
    \/ PeerInvalidate
    \/ Tick
    \/ \E st \in CacheRegistries : ChangeStore(st)

SpecSteps == Init /\ [][NextSteps]_vars

\* C24: invalidate_cache with no cache file raises nothing and leaves
\* everything as it was; every invalidate_cache, the second of two in a row
\* and the one that runs alongside another caller's included, leaves no
\* cache file, as a single one does.
C24_InvalidateIdempotent ==
    /\ [](last.op = "invalidate_cache" =>
            /\ ~last.post.exists
            /\ ~last.pre.exists => ~last.raised /\ last.post = last.pre)
    /\ [][last.op = "invalidate_cache" /\ last'.op = "invalidate_cache"
           => last'.post = last.post /\ (last' # last => cacheFile' = cacheFile)]_vars

\* C24: an invalidate_cache right after another has found no file and
\* returned
C24_Witness ==
    /\ last.op = "invalidate_cache"
    /\ last.after = "invalidate_cache"
    /\ ~last.pre.exists
    /\ pc = "idle"

\* C29: no get_graph(False) and no invalidate_cache raises, whatever
\* invalidate_cache of another caller runs between its steps.
C29_NoRaceRaises ==
    last.op \in {"get_graph", "invalidate_cache"} => ~last.raised

----------------------------------------------------------------------------
(* The infrastructure flag of built and of cached graphs.                  *)

\* registries whose names are in the allow-list as written, in it only once
\* lower-cased, and not in it
InfraRegistries ==
    {[exists |-> TRUE, docs |-> <<Manifest("Redis", "active", <<>>, <<>>),
                                  Manifest("A", "active", <<"Redis">>, <<>>)>>],
     [exists |-> TRUE, docs |-> <<Manifest("redis", "active", <<>>, <<>>),
                                  Manifest(CORE, "active", <<>>, <<"redis">>)>>],
     [exists |-> TRUE, docs |-> <<Manifest("A", "deprecated", <<>>, <<>>)>>]}

InitInfra == \E st \in InfraRegistries : Start(st)

NextInfra ==
    \/ \E force_rebuild \in BOOLEAN, fault \in {"none", "read_error"} :
          GetGraphCall(force_rebuild, fault)
    \/ InvalidateCall
    \/ Tick
    \/ \E st \in InfraRegistries : ChangeStore(st)

SpecInfra == InitInfra /\ [][NextInfra]_vars

\* C25: in every graph get_graph returns, built or read from the cache file,
\* the is_infrastructure of a node is whether its lower-cased name is in
\* INFRASTRUCTURE_SERVICES.
C25_FlagFollowsName ==
    IsGetGraph /\ ~last.raised =>
        \A n \in DOMAIN last.ret.val :
            last.ret.val[n].is_infrastructure = (Lower(n) \in INFRASTRUCTURE_SERVICES)

\* C25: a graph read from the cache file, written over an earlier registry,
\* with the node Redis (in the allow-list once lower-cased) and the node A
C25_Witness ==
    /\ IsGetGraph /\ ~last.built
    /\ BuildGraph(last.registry) # last.ret
    /\ DOMAIN last.ret.val = {"Redis", "A"}
    /\ last.ret.val["Redis"].is_infrastructure
    /\ ~last.ret.val["A"].is_infrastructure

----------------------------------------------------------------------------
(* SystemMapBuilder.build_catalog: registry entries against the live       *)
(* resources of the infrastructure scan.                                   *)

MaxServices == 2
MaxResources == 2

\* names are sequences of characters; str.lower() a character at a time
LowerChar(c) ==
    CASE c = "D" -> "d"
      [] c = "B" -> "b"
      [] c = "W" -> "w"
      [] OTHER -> c

LowerName(name) == [i \in 1..Len(name) |-> LowerChar(name[i])]

\* a in b, of two str
IsSubstring(a, b) ==
    \E i \in 1..(Len(b) - Len(a) + 1) : SubSeq(b, i, i + Len(a) - 1) = a

\* line 187: svc_vmid == vmid or svc_name.lower() in name.lower(); a vmid
\* that is not given is None on either side
Matches(svc, resource) ==
    \/ svc.vmid = resource.vmid
    \/ IsSubstring(LowerName(svc.name), LowerName(resource.name))

\* lines 185-195: the first entry of registry_services that matches the
\* resource is marked matched and the search breaks off; 0 if none does
FirstMatch(services, resource) ==
    IF \E i \in 1..Len(services) : Matches(services[i], resource)
    THEN CHOOSE i \in 1..Len(services) :
            /\ Matches(services[i], resource)
            /\ \A j \in 1..(i - 1) : ~Matches(services[j], resource)
    ELSE 0

\* build_catalog(), lines 142-147 and 165-166: what was loaded
BuildCatalogCall(services, resources) ==
    /\ pc = "idle"
    /\ last.op = "none"
    /\ call' = [op |-> "build_catalog", registry_services |-> services,
                resources |-> resources,
                matched |-> [i \in 1..Len(services) |-> FALSE]]
    /\ idx' = 1
    /\ pc' = "machines"
    /\ UNCHANGED <<store, cacheFile, now, graph, resolved, to_resolve, expanded,
                   targets, all_deps, last>>

\* lines 168-206: one resource of `for resource in resources`
CatalogMachine ==
    /\ pc = "machines"
    /\ idx <= Len(call.resources)
    /\ LET i == FirstMatch(call.registry_services, call.resources[idx])
       IN  call' = IF i = 0 THEN call ELSE [call EXCEPT !.matched[i] = TRUE]
    /\ idx' = idx + 1
    /\ UNCHANGED <<store, cacheFile, now, pc, graph, resolved, to_resolve,
                   expanded, targets, all_deps, last>>

\* lines 208-215: the entries not marked matched, in the order of the
\* registry; then the catalog is returned
CatalogReturn ==
    /\ pc = "machines"
    /\ idx > Len(call.resources)
    /\ last' = [op |-> "build_catalog",
                registry_services |-> call.registry_services,
                resources |-> call.resources,
                orphan_registry |->
                    SelectSeq([i \in 1..Len(call.registry_services) |->
                                  [name |-> call.registry_services[i].name,
                                   declared_vmid |-> call.registry_services[i].vmid,
                                   matched |-> call.matched[i]]],
                              LAMBDA e : ~e.matched)]
    /\ Idle
    /\ UNCHANGED <<store, cacheFile, now>>

\* registry entries: DB, b1, web, x; resources: db1, Web
ServiceChoices ==
    {[name |-> <<"D", "B">>, vmid |-> "100"],
     [name |-> <<"b", "1">>, vmid |-> "None"],
     [name |-> <<"w", "e", "b">>, vmid |-> "102"],
     [name |-> <<"x">>, vmid |-> "101"],
     [name |-> <<"x">>, vmid |-> "None"]}

ResourceChoices ==
    {[name |-> <<"d", "b", "1">>, vmid |-> "100"],
     [name |-> <<"d", "b", "1">>, vmid |-> "None"],
     [name |-> <<"W", "e", "b">>, vmid |-> "101"]}

\* registry_services is a dict: one entry to a name
ServiceLists ==
    {l \in UNION {[1..n -> ServiceChoices] : n \in 0..MaxServices} :
        \A i, j \in 1..Len(l) : l[i].name = l[j].name => i = j}

ResourceLists == UNION {[1..n -> ResourceChoices] : n \in 0..MaxResources}

InitCatalog == Start(MissingRegistry)

NextCatalog ==
    \/ \E services \in ServiceLists, resources \in ResourceLists :
          BuildCatalogCall(services, resources)
    \/ CatalogMachine
    \/ CatalogReturn

SpecCatalog == InitCatalog /\ [][NextCatalog]_vars

\* C26: build_catalog reports a registry entry as an orphan exactly when no
\* resource matches it (same vmid, or its lower-cased name inside the
\* resource's), however many entries and resources there are and in whatever
\* order, several entries matching one resource included.
C26_OrphanIffUnmatched ==
    last.op = "build_catalog" =>
        \A i \in 1..Len(last.registry_services) :
            (\E k \in 1..Len(last.orphan_registry) :
                last.orphan_registry[k].name = last.registry_services[i].name)
            <=> ~(\E j \in 1..Len(last.resources) :
                    Matches(last.registry_services[i], last.resources[j]))

----------------------------------------------------------------------------
(* The traversal of the `selective` policy.                                *)

\* node d of g passes the filters of the call
Eligible(g, d, exclude, statuses) ==
    /\ Has(g, d)
    /\ d \notin exclude
    /\ g.val[d].status \in statuses

\* C27: under `selective` a target listed as a dependency of seed s is
\* reachable from s along `requires` edges alone, and every target other than
\* the core service is so reachable from a seed that is not excluded: a
\* service a seed reaches only through an `optional` edge is not listed on
\* account of that seed.
C27_SelectiveIgnoresOptional ==
    IsTargetsResult /\ last.policy = "selective" =>
        \A j \in 1..Len(last.ret) :
            /\ \A s \in Range(last.include) :
                  last.ret[j].reason = DependencyOf(s) =>
                      last.ret[j].name \in Closure(last.graph, {s}, FALSE)
            /\ \/ last.ret[j].name = CORE
               \/ \E i \in LiveSeeds(last.include, last.exclude) :
                     last.ret[j].name \in Closure(last.graph, {last.include[i]}, FALSE)

\* C27: A lists redis as optional, redis is a node that passes the filters,
\* and include = [A] gave A alone
C27_Witness ==
    /\ IsTargetsResult /\ last.policy = "selective"
    /\ last.include = <<"A">>
    /\ Has(last.graph, "A")
    /\ last.graph.val["A"].optional = <<"redis">>
    /\ last.graph.val["A"].requires = <<>>
    /\ Eligible(last.graph, "redis", last.exclude, last.include_status)
    /\ NamesOf(last.ret) = {"A"}

\* C30: under `selective` a node of a seed's required-only closure that is
\* excluded or has a status outside the filter is left out (unless it is the
\* core service), and every node reached through it that passes the filters
\* is listed all the same.
C30_FilterDropsNodeOnly ==
    IsTargetsResult /\ last.policy = "selective" =>
        \A i \in LiveSeeds(last.include, last.exclude) :
            \A b \in Closure(last.graph, {last.include[i]}, FALSE) :
                ~Eligible(last.graph, b, last.exclude, last.include_status) =>
                    /\ b = CORE \/ b \notin NamesOf(last.ret)
                    /\ \A c \in Closure(last.graph, {b}, FALSE) :
                          Eligible(last.graph, c, last.exclude, last.include_status)
                              => c \in NamesOf(last.ret)

\* C30: A requires B, B requires C, B excluded: include = [A] gave A as
\* explicit and C as a dependency of A, and no B
C30_Witness ==
    /\ IsTargetsResult /\ last.policy = "selective"
    /\ last.include = <<"A">>
    /\ last.exclude = {"B"}
    /\ last.graph.val = BuildGraph(ChainRegistry("active")).val
    /\ Pairs(last.ret) = {<<"A", <<"explicit">>>>, <<"C", DependencyOf("A")>>}

----------------------------------------------------------------------------
(* One get_backup_targets call while time passes, the registry is          *)
(* rewritten and another caller invalidates the cache.                     *)

\* A requires [B]; A requires [C]
SnapshotRegistries ==
    {[exists |-> TRUE, docs |-> <<Manifest("A", "active", <<"B">>, <<>>),
                                  Manifest("B", "active", <<>>, <<>>)>>],
     [exists |-> TRUE, docs |-> <<Manifest("A", "active", <<"C">>, <<>>),
                                  Manifest("C", "active", <<>>, <<>>)>>]}

\* invalidate_cache() of another caller, between two steps of the call
TargetsPeerInvalidate ==
    /\ pc \in {"core", "selective", "deps"}
    /\ cacheFile.exists
    /\ cacheFile' = invalidate_cache(cacheFile)
    /\ UNCHANGED <<store, now, pc, call, graph, resolved, to_resolve, expanded,
                   targets, idx, all_deps, last>>

InitSnapshot == \E st \in SnapshotRegistries : Start(st)

NextSnapshot ==
    \/ /\ last.op = "none"
       /\ \E include \in {<<"A">>, <<"B", "A">>} :
             TargetsCall("selective", include, {}, {})
    \/ TargetsCore
    \/ TargetsSeed
    \/ TargetsDep
    \/ TargetsReturn
    \/ TargetsPeerInvalidate
    \/ Tick
    \/ \E st \in SnapshotRegistries : ChangeStore(st)

SpecSnapshot == InitSnapshot /\ [][NextSnapshot]_vars

\* C28: within one `selective` get_backup_targets call, the graph every
\* resolve works on is the graph the call fetched at its start and tests
\* presence, exclusion and status against, whatever happens to the cache and
\* the registry meanwhile.
C28_OneSnapshotPerCall ==
    IsTargetsResult /\ last.policy = "selective" =>
        \A k \in 1..Len(last.resolve_graphs) :
            last.resolve_graphs[k].val = last.graph.val

====
